---- MODULE Spec2Model ----
(***************************************************************************)
(* Table reconstruction from positioned text fragments:                    *)
(*   extract_pdf_tables           (basic mode,  src/backend/test.py and    *)
(*                                 LoadingService.extract_pdf_tables)      *)
(*   extract_pdf_tables_enhanced  (column-exact mode, src/backend/test.py) *)
(* A document is a sequence of pages, a page a sequence of layout          *)
(* elements.  Strings are sequences of one-character strings, coordinates  *)
(* are integers.                                                           *)
(***************************************************************************)
EXTENDS Integers, Sequences, FiniteSets, TLC

(* ------------------------------ bounds -------------------------------- *)
\* longest page of the row-geometry documents (Spec)
MaxElems == 4
\* longest page of the text documents (SpecText)
MaxTextElems == 3
\* longest page of the column-geometry documents (SpecCols)
MaxColElems == 3
MaxPages == 3

(* ------------------------- program constants --------------------------- *)
\* row_threshold of basic mode
RowThreshold == 5
\* the literal 8 of the chained row test of the enhanced function
EnhancedRowThreshold == 8
\* the literal 5 of the column tests of the enhanced function
ColumnSnap == 5
ServiceRowThreshold == 5
\* the literal 10 of the column merge of the enhanced function
MergeGap == 10

(* ------------------------------ numbers -------------------------------- *)
Abs(n) == IF n < 0 THEN -n ELSE n
Max(a, b) == IF a >= b THEN a ELSE b
Min(a, b) == IF a <= b THEN a ELSE b

(* ------------------------------ strings -------------------------------- *)
\* the characters Python's str.strip() and the regex class \s treat as space:
\* space, \t, \n, \r, \f, then \v and \x1c-\x1f, then \x85, \xa0 and U+1680,
\* the last eight written as the characters themselves.  Python's other
\* whitespace (U+2000-U+200A, U+2028, U+2029, U+202F, U+205F, U+3000) cannot be
\* written in a string of this language, so no text of the model holds it.
IsSpace(c) ==
  c \in {" ", "\t", "\n", "\r", "\f",
         "", "", "", "", "",
         "", " ", " "}

RECURSIVE LStrip(_)
LStrip(s) ==
  IF s = <<>> THEN <<>>
  ELSE IF IsSpace(Head(s)) THEN LStrip(Tail(s)) ELSE s

RECURSIVE RStrip(_)
RStrip(s) ==
  IF s = <<>> THEN <<>>
  ELSE IF IsSpace(s[Len(s)]) THEN RStrip(SubSeq(s, 1, Len(s) - 1)) ELSE s

\* str.strip()
Strip(s) == RStrip(LStrip(s))

\* re.sub(r'\s+', ' ', s): every maximal whitespace run becomes one space
RECURSIVE CollapseWS(_)
CollapseWS(s) ==
  IF s = <<>> THEN <<>>
  ELSE IF IsSpace(Head(s)) THEN <<" ">> \o CollapseWS(LStrip(s))
  ELSE <<Head(s)>> \o CollapseWS(Tail(s))

\* a variant that only trims, as a cell would be if the collapse were missing
CleanTextNoCollapse(s) == Strip(s)

\* clean_text = re.sub(r'\s+', ' ', cell['text']).strip()
CleanText(s) == Strip(CollapseWS(s))

\* sep.join(parts)
RECURSIVE Join(_, _)
Join(sep, parts) ==
  IF parts = <<>> THEN <<>>
  ELSE IF Len(parts) = 1 THEN parts[1]
  ELSE parts[1] \o sep \o Join(sep, Tail(parts))

\* s.split(ch) for a one-character separator
RECURSIVE SplitOn(_, _)
SplitOn(s, ch) ==
  IF s = <<>> THEN << <<>> >>
  ELSE LET rest == SplitOn(Tail(s), ch) IN
       IF Head(s) = ch THEN << <<>> >> \o rest
       ELSE << <<Head(s)>> \o rest[1] >> \o Tail(rest)

(* ------------------------------ sorting -------------------------------- *)
\* list.sort is stable: an element goes after every element whose key is
\* not greater than its own.
RECURSIVE InsertYDesc(_, _)
InsertYDesc(sorted, e) ==
  IF sorted = <<>> THEN <<e>>
  ELSE IF Head(sorted).y0 >= e.y0 THEN <<Head(sorted)>> \o InsertYDesc(Tail(sorted), e)
  ELSE <<e>> \o sorted

\* a variant that leaves the fragments in order of appearance
SortYDescMissing(s) == s

\* text_elements.sort(key=lambda x: -x['y0'])
RECURSIVE SortYDesc(_)
SortYDesc(s) ==
  IF s = <<>> THEN <<>>
  ELSE InsertYDesc(SortYDesc(SubSeq(s, 1, Len(s) - 1)), s[Len(s)])

RECURSIVE InsertX0(_, _)
InsertX0(sorted, e) ==
  IF sorted = <<>> THEN <<e>>
  ELSE IF Head(sorted).x0 <= e.x0 THEN <<Head(sorted)>> \o InsertX0(Tail(sorted), e)
  ELSE <<e>> \o sorted

\* a variant that leaves the row in clustering order
SortX0Missing(s) == s

\* row.sort(key=lambda x: x['x0'])
RECURSIVE SortX0(_)
SortX0(s) ==
  IF s = <<>> THEN <<>>
  ELSE InsertX0(SortX0(SubSeq(s, 1, Len(s) - 1)), s[Len(s)])

(* ------------------------------ state ---------------------------------- *)
VARIABLES
  mode,               \* "basic": extract_pdf_tables, "enhanced": extract_pdf_tables_enhanced
  doc,                \* what extract_pages(pdf_path) yields: a sequence of pages
  pc,                 \* position in the function body
  page,               \* index of the page_layout being processed
  text_elements,      \* text_elements of the current page
  idx,                \* position of the running for loop
  rows,               \* rows of the current page
  current_row,        \* current_row of the row grouping loop
  row_y,              \* row_y of basic mode: <<>> is None, <<y>> a value
  column_boundaries,  \* column_boundaries of the current page (enhanced)
  merged_columns,     \* merged_columns of the current page (enhanced)
  page_tables,        \* page_tables (basic) / processed_rows (enhanced)
  all_tables_data,    \* all_tables_data
  result_strings,     \* result_strings
  result,             \* the returned string
  raised              \* <<>>, or <<e>> when the call has ended by raising e

vars == <<mode, doc, pc, page, text_elements, idx, rows, current_row, row_y,
          column_boundaries, merged_columns, page_tables, all_tables_data, result_strings, result, raised>>

Modes == {"basic", "enhanced"}

(* ------------------------------ inputs --------------------------------- *)
\* one-letter texts that tell the fragments of a page apart
Letters == <<"a", "b", "c", "d", "e", "f", "g", "h", "i", "j">>

TextElement(t, x, y, w) == [kind |-> "text", text |-> t, x0 |-> x, y0 |-> y, x1 |-> w]
RectElement == [kind |-> "rect", text |-> <<>>, x0 |-> 0, y0 |-> 0, x1 |-> 200]

\* bounding boxes for the row grouping, in two columns: a chain 12, 8, 4, 0
\* whose neighbours are 4 apart, and a group 100, 105, 110
ChainBoxes ==
  { [x0 |-> 10, y0 |-> 12, x1 |-> 30], [x0 |-> 60, y0 |-> 8, x1 |-> 80],
    [x0 |-> 10, y0 |-> 4, x1 |-> 30],  [x0 |-> 60, y0 |-> 0, x1 |-> 80] }
GroupBoxes ==
  { [x0 |-> 10, y0 |-> 100, x1 |-> 30], [x0 |-> 60, y0 |-> 100, x1 |-> 80],
    [x0 |-> 10, y0 |-> 110, x1 |-> 30], [x0 |-> 60, y0 |-> 105, x1 |-> 80] }
RowBoxes == ChainBoxes \cup GroupBoxes

\* bounding boxes for the column inference: nested, touching and distant
\* spans, and one whose x0 is ColumnSnap right of [28,40] and left of [50,60]
ColBoxes ==
  { [x0 |-> a[1], y0 |-> y, x1 |-> a[2]] :
      a \in { <<0, 20>>, <<28, 40>>, <<50, 60>>, <<75, 90>>, <<0, 100>> },
      y \in {100, 110} }
  \cup { [x0 |-> 45, y0 |-> 100, x1 |-> 70] }

\* pages of at most n elements with boxes from B, the i-th with the text Letters[i]
BoxPages(B, n) ==
  UNION { { [i \in 1..k |-> TextElement(<<Letters[i]>>, f[i].x0, f[i].y0, f[i].x1)] :
              f \in [1..k -> B] } : k \in 0..n }

\* pages of at most n elements of the chain or of the group, and pages of
\* fewer than n elements that mix the two
RowPages(n) ==
  BoxPages(ChainBoxes, n) \cup BoxPages(GroupBoxes, n) \cup BoxPages(RowBoxes, n - 1)

\* texts with embedded, leading and trailing whitespace, two of them with
\* whitespace other than space, tab and newline; the last is Scenario E
Texts ==
  { <<"a">>,
    <<" ", "b">>,
    <<"c", "\t", "d">>,
    <<" ", "\n">>,
    <<"\r">>,
    <<"\f", "e", "\r", " ", "f", "">>,
    <<"T", "o", "t", "a", "l", ":", "\n", " ", " ", "4", "2", " ">> }

\* the box of the i-th element of a text page: two columns, rows 20 apart
TextBoxX(i) == IF i % 2 = 1 THEN 10 ELSE 60
TextBoxY(i) == 100 - 20 * ((i - 1) \div 2)

TextChoices == Texts \cup {<<"rect">>}

\* pages of at most n elements: a text container with a text of Texts, or a rectangle
TextPages(n) ==
  UNION { { [i \in 1..k |->
               IF f[i] = <<"rect">> THEN RectElement
               ELSE TextElement(f[i], TextBoxX(i), TextBoxY(i), TextBoxX(i) + 20)] :
              f \in [1..k -> TextChoices] } : k \in 0..n }

\* the element that stands for extract_pages raising at a page; its text
\* names the exception of the PDF library
FaultElement ==
  [kind |-> "fault", text |-> <<"PDFSyntaxError">>, x0 |-> 0, y0 |-> 0, x1 |-> 0]

\* pages of a document of several pages, before their texts are set: no
\* element, a rectangle only, a blank text only, one fragment, one row of two
\* fragments met right to left, two rows met bottom to top
SoundShapes ==
  { <<>>,
    << RectElement >>,
    << TextElement(<<" ", "\n">>, 10, 100, 30) >>,
    << TextElement(<<>>, 10, 100, 30) >>,
    << TextElement(<<>>, 60, 100, 80), TextElement(<<>>, 10, 100, 30) >>,
    << TextElement(<<>>, 10, 80, 30), TextElement(<<>>, 10, 100, 30) >> }

\* and the page at which extract_pages raises
FaultShape == << FaultElement >>

\* the letter of the i-th element of page p: two letters to a page
PageLetter(p, i) == Letters[2 * (p - 1) + i]

\* the shape sh as page p: every text left open takes the letter of its place
MakePage(sh, p) ==
  [i \in 1..Len(sh) |->
     IF sh[i].kind = "text" /\ sh[i].text = <<>>
     THEN [sh[i] EXCEPT !.text = <<PageLetter(p, i)>>]
     ELSE sh[i]]

\* documents of at most n pages with shapes from S
Docs(S, n) ==
  UNION { { [p \in 1..k |-> MakePage(f[p], p)] : f \in [1..k -> S] } : k \in 0..n }

(* --------------------------- collecting -------------------------------- *)
\* the for element in page_layout loop: text containers with non-empty
\* stripped text, in order of appearance; id is the position in the page
\* a variant that also takes the text containers whose trimmed text is empty
RECURSIVE CollectFromKeepBlank(_, _)
CollectFromKeepBlank(pg, i) ==
  IF i > Len(pg) THEN <<>>
  ELSE IF pg[i].kind = "text"
       THEN << [id |-> i, text |-> Strip(pg[i].text),
                x0 |-> pg[i].x0, y0 |-> pg[i].y0, x1 |-> pg[i].x1] >>
            \o CollectFromKeepBlank(pg, i + 1)
       ELSE CollectFromKeepBlank(pg, i + 1)

\* a variant that takes a rectangle for a fragment that holds a bar
RECURSIVE CollectFromShapes(_, _)
CollectFromShapes(pg, i) ==
  IF i > Len(pg) THEN <<>>
  ELSE IF pg[i].kind = "text" /\ Strip(pg[i].text) # <<>>
       THEN << [id |-> i, text |-> Strip(pg[i].text),
                x0 |-> pg[i].x0, y0 |-> pg[i].y0, x1 |-> pg[i].x1] >>
            \o CollectFromShapes(pg, i + 1)
       ELSE IF pg[i].kind = "rect"
       THEN << [id |-> i, text |-> <<"|">>,
                x0 |-> pg[i].x0, y0 |-> pg[i].y0, x1 |-> pg[i].x1] >>
            \o CollectFromShapes(pg, i + 1)
       ELSE CollectFromShapes(pg, i + 1)

RECURSIVE CollectFrom(_, _)
CollectFrom(pg, i) ==
  IF i > Len(pg) THEN <<>>
  ELSE IF pg[i].kind = "text" /\ Strip(pg[i].text) # <<>>
       THEN << [id |-> i, text |-> Strip(pg[i].text),
                x0 |-> pg[i].x0, y0 |-> pg[i].y0, x1 |-> pg[i].x1] >>
            \o CollectFrom(pg, i + 1)
       ELSE CollectFrom(pg, i + 1)

Collect(pg) == CollectFrom(pg, 1)

\* a page at which extract_pages raises instead of yielding a layout; the
\* text of its only element names the exception
IsFault(pg) == pg # <<>> /\ pg[1].kind = "fault"

TypeOK ==
  /\ mode \in Modes
  /\ pc \in {"page", "sort", "cluster", "xsort", "discover", "assemble", "assembled", "done",
            "raised"}
  /\ page \in 1..(Len(doc) + 1)
  /\ Len(row_y) <= 1

InitWith(docs) ==
  /\ mode \in Modes
  /\ doc \in docs
  /\ pc = "page"
  /\ page = 1
  /\ text_elements = <<>>
  /\ idx = 1
  /\ rows = <<>>
  /\ current_row = <<>>
  /\ row_y = <<>>
  /\ column_boundaries = <<>>
  /\ merged_columns = <<>>
  /\ page_tables = <<>>
  /\ all_tables_data = <<>>
  /\ result_strings = <<>>
  /\ result = <<>>
  /\ raised = <<>>

Init == InitWith({ <<p>> : p \in RowPages(MaxElems) })
InitText == InitWith({ <<p>> : p \in TextPages(MaxTextElems) })
InitCols == InitWith({ <<p>> : p \in BoxPages(ColBoxes, MaxColElems) })
InitPages == InitWith(Docs(SoundShapes \cup {FaultShape}, MaxPages))
InitSound == InitWith(Docs(SoundShapes, MaxPages))

(* ----------------------- page loop: collecting ------------------------- *)
\* for page_layout in extract_pages(pdf_path): the element loop found text
CollectPage ==
  /\ pc = "page" /\ page <= Len(doc)
  /\ ~IsFault(doc[page])
  /\ Collect(doc[page]) # <<>>
  /\ text_elements' = Collect(doc[page])
  /\ page_tables' = IF mode = "basic" THEN <<>> ELSE page_tables
  /\ idx' = 1
  /\ pc' = "sort"
  /\ UNCHANGED <<mode, doc, page, rows, current_row, row_y, column_boundaries,
                 merged_columns, all_tables_data, result_strings, result, raised>>

\* a variant of the skip that leaves the page loop (break for continue)
SkipEmptyPageBreak ==
  /\ pc = "page" /\ page <= Len(doc)
  /\ ~IsFault(doc[page])
  /\ Collect(doc[page]) = <<>>
  /\ text_elements' = <<>>
  /\ page_tables' = IF mode = "basic" THEN <<>> ELSE page_tables
  /\ page' = Len(doc) + 1
  /\ UNCHANGED <<mode, doc, pc, idx, rows, current_row, row_y, column_boundaries,
                 merged_columns, all_tables_data, result_strings, result, raised>>

\* a variant of the skip that does not move on to the next page
SkipEmptyPageStuck ==
  /\ pc = "page" /\ page <= Len(doc)
  /\ ~IsFault(doc[page])
  /\ Collect(doc[page]) = <<>>
  /\ text_elements' = <<>>
  /\ page_tables' = IF mode = "basic" THEN <<>> ELSE page_tables
  /\ UNCHANGED <<mode, doc, pc, page, idx, rows, current_row, row_y, column_boundaries,
                 merged_columns, all_tables_data, result_strings, result, raised>>

\* if not text_elements: continue
SkipEmptyPage ==
  /\ pc = "page" /\ page <= Len(doc)
  /\ ~IsFault(doc[page])
  /\ Collect(doc[page]) = <<>>
  /\ text_elements' = <<>>
  /\ page_tables' = IF mode = "basic" THEN <<>> ELSE page_tables
  /\ page' = page + 1
  /\ UNCHANGED <<mode, doc, pc, idx, rows, current_row, row_y, column_boundaries,
                 merged_columns, all_tables_data, result_strings, result, raised>>

\* extract_pages raises while the page is fetched: nothing catches it, the
\* call ends with the collaborator's exception and returns nothing
RaiseLayoutFault ==
  /\ pc = "page" /\ page <= Len(doc)
  /\ IsFault(doc[page])
  /\ raised' = <<doc[page][1].text>>
  /\ pc' = "raised"
  /\ UNCHANGED <<mode, doc, page, text_elements, idx, rows, current_row, row_y,
                 column_boundaries, merged_columns, page_tables, all_tables_data,
                 result_strings, result>>

\* text_elements.sort(key=lambda x: -x['y0'])
\* then rows = [], current_row = [] (and row_y = None in basic mode)
SortPage ==
  /\ pc = "sort"
  /\ text_elements' = SortYDesc(text_elements)
  /\ rows' = <<>> /\ current_row' = <<>>
  /\ row_y' = IF mode = "basic" THEN <<>> ELSE row_y
  /\ idx' = 1
  /\ pc' = "cluster"
  /\ UNCHANGED <<mode, doc, page, column_boundaries,
                 merged_columns, page_tables, all_tables_data, result_strings, result, raised>>

(* --------------------- row grouping, basic mode ------------------------ *)
\* a variant with a non-strict test
BasicSameRowInclusive(y, ref) == Abs(y - ref) <= RowThreshold

\* abs(text['y0'] - row_y) < row_threshold
BasicSameRow(y, ref) == Abs(y - ref) < RowThreshold

\* if row_y is None: the first fragment of the page opens the first row
BasicOpenRow ==
  /\ pc = "cluster" /\ mode = "basic" /\ idx <= Len(text_elements)
  /\ row_y = <<>>
  /\ row_y' = <<text_elements[idx].y0>>
  /\ current_row' = Append(current_row, text_elements[idx])
  /\ idx' = idx + 1
  /\ UNCHANGED <<mode, doc, pc, page, text_elements, rows, column_boundaries,
                 merged_columns, page_tables, all_tables_data, result_strings, result, raised>>

\* a variant that moves the reference to the fragment just appended
BasicAppendDrift ==
  /\ pc = "cluster" /\ mode = "basic" /\ idx <= Len(text_elements)
  /\ row_y # <<>>
  /\ BasicSameRow(text_elements[idx].y0, row_y[1])
  /\ current_row' = Append(current_row, text_elements[idx])
  /\ row_y' = <<text_elements[idx].y0>>
  /\ idx' = idx + 1
  /\ UNCHANGED <<mode, doc, pc, page, text_elements, rows, column_boundaries,
                 merged_columns, page_tables, all_tables_data, result_strings, result, raised>>

\* elif abs(text['y0'] - row_y) < row_threshold: current_row.append(text)
BasicAppend ==
  /\ pc = "cluster" /\ mode = "basic" /\ idx <= Len(text_elements)
  /\ row_y # <<>>
  /\ BasicSameRow(text_elements[idx].y0, row_y[1])
  /\ current_row' = Append(current_row, text_elements[idx])
  /\ idx' = idx + 1
  /\ UNCHANGED <<mode, doc, pc, page, text_elements, rows, row_y, column_boundaries,
                 merged_columns, page_tables, all_tables_data, result_strings, result, raised>>

\* else: close the current row and open a new one
BasicSplit ==
  /\ pc = "cluster" /\ mode = "basic" /\ idx <= Len(text_elements)
  /\ row_y # <<>>
  /\ ~BasicSameRow(text_elements[idx].y0, row_y[1])
  /\ rows' = IF current_row # <<>> THEN Append(rows, current_row) ELSE rows
  /\ current_row' = <<text_elements[idx]>>
  /\ row_y' = <<text_elements[idx].y0>>
  /\ idx' = idx + 1
  /\ UNCHANGED <<mode, doc, pc, page, text_elements, column_boundaries,
                 merged_columns, page_tables, all_tables_data, result_strings, result, raised>>

(* -------------------- row grouping, enhanced mode ---------------------- *)
\* a variant with a threshold below the one of the basic mode
EnhancedSameRowTight(row, y) == Abs(y - row[Len(row)].y0) < RowThreshold - 2

\* a variant that compares with the first fragment of the row
EnhancedSameRowPinned(row, y) == Abs(y - row[1].y0) < EnhancedRowThreshold

\* last_text = current_row[-1]; y_diff = abs(text['y0'] - last_text['y0']); y_diff < 8
EnhancedSameRow(row, y) == Abs(y - row[Len(row)].y0) < EnhancedRowThreshold

\* if not current_row: current_row.append(text)
EnhancedOpenRow ==
  /\ pc = "cluster" /\ mode = "enhanced" /\ idx <= Len(text_elements)
  /\ current_row = <<>>
  /\ current_row' = <<text_elements[idx]>>
  /\ idx' = idx + 1
  /\ UNCHANGED <<mode, doc, pc, page, text_elements, rows, row_y, column_boundaries,
                 merged_columns, page_tables, all_tables_data, result_strings, result, raised>>

\* if y_diff < 8: current_row.append(text)
EnhancedAppend ==
  /\ pc = "cluster" /\ mode = "enhanced" /\ idx <= Len(text_elements)
  /\ current_row # <<>>
  /\ EnhancedSameRow(current_row, text_elements[idx].y0)
  /\ current_row' = Append(current_row, text_elements[idx])
  /\ idx' = idx + 1
  /\ UNCHANGED <<mode, doc, pc, page, text_elements, rows, row_y, column_boundaries,
                 merged_columns, page_tables, all_tables_data, result_strings, result, raised>>

\* else: rows.append(current_row); current_row = [text]
EnhancedSplit ==
  /\ pc = "cluster" /\ mode = "enhanced" /\ idx <= Len(text_elements)
  /\ current_row # <<>>
  /\ ~EnhancedSameRow(current_row, text_elements[idx].y0)
  /\ rows' = Append(rows, current_row)
  /\ current_row' = <<text_elements[idx]>>
  /\ idx' = idx + 1
  /\ UNCHANGED <<mode, doc, pc, page, text_elements, row_y, column_boundaries,
                 merged_columns, page_tables, all_tables_data, result_strings, result, raised>>

\* a variant that forgets the row still open when the loop ends
ClusterFinishDropLast ==
  /\ pc = "cluster" /\ idx > Len(text_elements)
  /\ column_boundaries' = IF mode = "enhanced" THEN <<>> ELSE column_boundaries
  /\ idx' = 1
  /\ pc' = IF mode = "basic" THEN "xsort" ELSE "discover"
  /\ UNCHANGED <<mode, doc, page, text_elements, rows, current_row, row_y,
                 merged_columns, page_tables, all_tables_data, result_strings, result, raised>>

\* a variant that keeps the column boundaries of the page before
ClusterFinishKeepColumns ==
  /\ pc = "cluster" /\ idx > Len(text_elements)
  /\ rows' = IF current_row # <<>> THEN Append(rows, current_row) ELSE rows
  /\ idx' = 1
  /\ pc' = IF mode = "basic" THEN "xsort" ELSE "discover"
  /\ UNCHANGED <<mode, doc, page, text_elements, current_row, row_y, column_boundaries,
                 merged_columns, page_tables, all_tables_data, result_strings, result, raised>>

\* a variant that also sorts every row by x0 before the columns are inferred
ClusterFinishSorted ==
  /\ pc = "cluster" /\ idx > Len(text_elements)
  /\ rows' = LET rs == IF current_row # <<>> THEN Append(rows, current_row) ELSE rows
             IN [i \in 1..Len(rs) |-> SortX0(rs[i])]
  /\ column_boundaries' = IF mode = "enhanced" THEN <<>> ELSE column_boundaries
  /\ idx' = 1
  /\ pc' = IF mode = "basic" THEN "xsort" ELSE "discover"
  /\ UNCHANGED <<mode, doc, page, text_elements, current_row, row_y,
                 merged_columns, page_tables, all_tables_data, result_strings, result, raised>>

\* after the loop: if current_row: rows.append(current_row)
ClusterFinish ==
  /\ pc = "cluster" /\ idx > Len(text_elements)
  /\ rows' = IF current_row # <<>> THEN Append(rows, current_row) ELSE rows
  /\ column_boundaries' = IF mode = "enhanced" THEN <<>> ELSE column_boundaries
  /\ idx' = 1
  /\ pc' = IF mode = "basic" THEN "xsort" ELSE "discover"
  /\ UNCHANGED <<mode, doc, page, text_elements, current_row, row_y,
                 merged_columns, page_tables, all_tables_data, result_strings, result, raised>>

(* ------------------ column boundaries (enhanced mode) ------------------ *)
\* for row in rows: for text in row: the fragments in visiting order
RECURSIVE Walk(_)
Walk(rs) == IF rs = <<>> THEN <<>> ELSE Head(rs) \o Walk(Tail(rs))

\* a test with a tolerance wider than the gap of the merge phase
SnapsWide(col, t) ==
  t.x0 >= col.xmin - 3 * ColumnSnap /\ t.x0 <= col.xmax + 3 * ColumnSnap

\* text['x0'] >= col[0] - 5 and text['x0'] <= col[1] + 5
Snaps(col, t) == t.x0 >= col.xmin - ColumnSnap /\ t.x0 <= col.xmax + ColumnSnap

\* a search that keeps going after a match and so ends on the last column
\* that takes the fragment
LastSnap(cb, t) ==
  IF \E i \in 1..Len(cb) : Snaps(cb[i], t)
  THEN CHOOSE i \in 1..Len(cb) :
         Snaps(cb[i], t) /\ \A j \in (i + 1)..Len(cb) : ~Snaps(cb[j], t)
  ELSE 0

\* for col in column_boundaries: ... break: index of the first column that
\* takes the fragment, 0 when the loop ends with found = False
RECURSIVE FirstSnapFrom(_, _, _)
FirstSnapFrom(cols, t, i) ==
  IF i > Len(cols) THEN 0
  ELSE IF Snaps(cols[i], t) THEN i ELSE FirstSnapFrom(cols, t, i + 1)

FirstSnap(cols, t) == FirstSnapFrom(cols, t, 1)

\* if not column_boundaries: column_boundaries.append([text['x0'], text['x1']])
DiscoverFirst ==
  /\ pc = "discover" /\ idx <= Len(Walk(rows))
  /\ column_boundaries = <<>>
  /\ column_boundaries' = << [xmin |-> Walk(rows)[idx].x0, xmax |-> Walk(rows)[idx].x1] >>
  /\ idx' = idx + 1
  /\ UNCHANGED <<mode, doc, pc, page, text_elements, rows, current_row, row_y,
                 merged_columns, page_tables, all_tables_data, result_strings, result, raised>>

\* col[0] = min(col[0], text['x0']); col[1] = max(col[1], text['x1']); found = True; break
DiscoverExtend ==
  /\ pc = "discover" /\ idx <= Len(Walk(rows))
  /\ column_boundaries # <<>>
  /\ LET t == Walk(rows)[idx]
         i == FirstSnap(column_boundaries, t)
     IN /\ i # 0
        /\ column_boundaries' =
             [column_boundaries EXCEPT
                ![i] = [xmin |-> Min(column_boundaries[i].xmin, t.x0),
                        xmax |-> Max(column_boundaries[i].xmax, t.x1)]]
  /\ idx' = idx + 1
  /\ UNCHANGED <<mode, doc, pc, page, text_elements, rows, current_row, row_y,
                 merged_columns, page_tables, all_tables_data, result_strings, result, raised>>

\* if not found: column_boundaries.append([text['x0'], text['x1']])
DiscoverNew ==
  /\ pc = "discover" /\ idx <= Len(Walk(rows))
  /\ column_boundaries # <<>>
  /\ LET t == Walk(rows)[idx]
     IN /\ FirstSnap(column_boundaries, t) = 0
        /\ column_boundaries' = Append(column_boundaries, [xmin |-> t.x0, xmax |-> t.x1])
  /\ idx' = idx + 1
  /\ UNCHANGED <<mode, doc, pc, page, text_elements, rows, current_row, row_y,
                 merged_columns, page_tables, all_tables_data, result_strings, result, raised>>

\* a sort left out: the list stays in discovery order
SortXminMissing(s) == s

RECURSIVE InsertXmin(_, _)
InsertXmin(sorted, e) ==
  IF sorted = <<>> THEN <<e>>
  ELSE IF Head(sorted).xmin <= e.xmin THEN <<Head(sorted)>> \o InsertXmin(Tail(sorted), e)
  ELSE <<e>> \o sorted

\* column_boundaries.sort(key=lambda x: x[0])
RECURSIVE SortXmin(_)
SortXmin(s) ==
  IF s = <<>> THEN <<>>
  ELSE InsertXmin(SortXmin(SubSeq(s, 1, Len(s) - 1)), s[Len(s)])

\* a merge loop that joins a column without extending the last merged one
RECURSIVE MergeIntoKeep(_, _)
MergeIntoKeep(merged, cols) ==
  IF cols = <<>> THEN merged
  ELSE LET col == Head(cols) IN
       IF merged = <<>> THEN MergeIntoKeep(<<col>>, Tail(cols))
       ELSE LET last_col == merged[Len(merged)] IN
            IF col.xmin <= last_col.xmax + MergeGap
            THEN MergeIntoKeep(merged, Tail(cols))
            ELSE MergeIntoKeep(Append(merged, col), Tail(cols))

\* a merge loop that joins only when the gap is strictly below MergeGap
RECURSIVE MergeIntoStrict(_, _)
MergeIntoStrict(merged, cols) ==
  IF cols = <<>> THEN merged
  ELSE LET col == Head(cols) IN
       IF merged = <<>> THEN MergeIntoStrict(<<col>>, Tail(cols))
       ELSE LET last_col == merged[Len(merged)] IN
            IF col.xmin < last_col.xmax + MergeGap
            THEN MergeIntoStrict([merged EXCEPT ![Len(merged)].xmax = Max(last_col.xmax, col.xmax)],
                                 Tail(cols))
            ELSE MergeIntoStrict(Append(merged, col), Tail(cols))

\* the loop over the sorted columns: merged is merged_columns so far
RECURSIVE MergeInto(_, _)
MergeInto(merged, cols) ==
  IF cols = <<>> THEN merged
  ELSE LET col == Head(cols) IN
       IF merged = <<>> THEN MergeInto(<<col>>, Tail(cols))
       ELSE LET last_col == merged[Len(merged)] IN
            IF col.xmin <= last_col.xmax + MergeGap
            THEN MergeInto([merged EXCEPT ![Len(merged)].xmax = Max(last_col.xmax, col.xmax)],
                           Tail(cols))
            ELSE MergeInto(Append(merged, col), Tail(cols))

\* a walk that compares each column with the column before it in the sorted
\* list instead of the last merged column
RECURSIVE MergeAdjacentInto(_, _, _)
MergeAdjacentInto(merged, prev, cols) ==
  IF cols = <<>> THEN merged
  ELSE LET col == Head(cols) IN
       IF col.xmin <= prev.xmax + MergeGap
       THEN MergeAdjacentInto(
              [merged EXCEPT ![Len(merged)].xmax = Max(merged[Len(merged)].xmax, col.xmax)],
              col, Tail(cols))
       ELSE MergeAdjacentInto(Append(merged, col), col, Tail(cols))

MergeColumnsAdjacent(cb) ==
  IF cb = <<>> THEN <<>>
  ELSE MergeAdjacentInto(<<SortXmin(cb)[1]>>, SortXmin(cb)[1], Tail(SortXmin(cb)))

\* the merge phase: sort by xmin, then merge left to right
MergeColumns(cb) == MergeInto(<<>>, SortXmin(cb))

\* one pass of the discovery loop body: the boundaries after visiting t
DiscoverOne(cb, t) ==
  IF cb = <<>> THEN << [xmin |-> t.x0, xmax |-> t.x1] >>
  ELSE LET i == FirstSnap(cb, t) IN
       IF i # 0
       THEN [cb EXCEPT ![i] = [xmin |-> Min(cb[i].xmin, t.x0), xmax |-> Max(cb[i].xmax, t.x1)]]
       ELSE Append(cb, [xmin |-> t.x0, xmax |-> t.x1])

\* the discovery loop over the fragments of walk, in that order
RECURSIVE DiscoverAll(_, _)
DiscoverAll(cb, walk) ==
  IF walk = <<>> THEN cb ELSE DiscoverAll(DiscoverOne(cb, Head(walk)), Tail(walk))

\* discovery and merge of a page whose fragments are visited in the order of walk
ResolveColumns(walk) == MergeColumns(DiscoverAll(<<>>, walk))

\* column_boundaries after the merge loop. merged_columns.append(col) stores
\* the very list object that column_boundaries holds, so last_col[1] = max(...)
\* shows in column_boundaries too: lead is the position of last_col in cols
RECURSIVE MergeShared(_, _, _)
MergeShared(cols, lead, i) ==
  IF i > Len(cols) THEN cols
  ELSE IF lead = 0 THEN MergeShared(cols, i, i + 1)
  ELSE IF cols[i].xmin <= cols[lead].xmax + MergeGap
  THEN MergeShared([cols EXCEPT ![lead].xmax = Max(cols[lead].xmax, cols[i].xmax)],
                   lead, i + 1)
  ELSE MergeShared(cols, i, i + 1)

\* the merge phase, run when the discovery loop has ended
MergeStep ==
  /\ pc = "discover" /\ idx > Len(Walk(rows))
  /\ column_boundaries' = MergeShared(SortXmin(column_boundaries), 0, 1)
  /\ merged_columns' = MergeColumns(column_boundaries)
  /\ pc' = "assemble"
  /\ UNCHANGED <<mode, doc, page, text_elements, idx, rows, current_row, row_y,
                 page_tables, all_tables_data, result_strings, result, raised>>

(* ------------------------------ assembly ------------------------------- *)
NonEmpty(seq) == SelectSeq(seq, LAMBDA r : r # <<>>)

\* row_data of basic mode: the cleaned text of each cell, empty ones left out
BasicRowData(row) == NonEmpty([i \in 1..Len(row) |-> CleanText(row[i].text)])

\* for row in rows: row.sort(key=lambda x: x['x0'])
\* current_row is the list object appended last to rows, so the sort of the
\* last row reorders it as well
SortRows ==
  /\ pc = "xsort"
  /\ rows' = [i \in 1..Len(rows) |-> SortX0(rows[i])]
  /\ current_row' = SortX0(current_row)
  /\ pc' = "assemble"
  /\ UNCHANGED <<mode, doc, page, text_elements, idx, row_y,
                 column_boundaries, merged_columns, page_tables, all_tables_data, result_strings, result, raised>>

\* for row in rows: ... if row_data: page_tables.append(row_data)
AssembleBasic ==
  /\ pc = "assemble" /\ mode = "basic"
  /\ page_tables' = NonEmpty([i \in 1..Len(rows) |-> BasicRowData(rows[i])])
  /\ pc' = "assembled"
  /\ UNCHANGED <<mode, doc, page, text_elements, idx, rows, current_row, row_y,
                 column_boundaries, merged_columns, all_tables_data, result_strings, result, raised>>

\* text['x0'] >= col[0] - 5 and text['x1'] <= col[1] + 5
Fits(col, t) == t.x0 >= col.xmin - ColumnSnap /\ t.x1 <= col.xmax + ColumnSnap

RECURSIVE FirstFitFrom(_, _, _)
FirstFitFrom(cols, t, i) ==
  IF i > Len(cols) THEN 0
  ELSE IF Fits(cols[i], t) THEN i ELSE FirstFitFrom(cols, t, i + 1)

\* for i, col in enumerate(merged_columns): ... break
FirstFit(cols, t) == FirstFitFrom(cols, t, 1)

\* a variant in which a later text replaces the text the slot holds
RECURSIVE PlaceOverwrite(_, _, _)
PlaceOverwrite(row_data, row, cols) ==
  IF row = <<>> THEN row_data
  ELSE LET t == Head(row)
           i == FirstFit(cols, t)
       IN IF i = 0 THEN PlaceOverwrite(row_data, Tail(row), cols)
          ELSE PlaceOverwrite([row_data EXCEPT ![i] = t.text], Tail(row), cols)

\* for text in row: the slot of the first fitting column takes the text,
\* after a space when it already holds text
RECURSIVE Place(_, _, _)
Place(row_data, row, cols) ==
  IF row = <<>> THEN row_data
  ELSE LET t == Head(row)
           i == FirstFit(cols, t)
       IN IF i = 0 THEN Place(row_data, Tail(row), cols)
          ELSE IF row_data[i] # <<>>
               THEN Place([row_data EXCEPT ![i] = row_data[i] \o <<" ">> \o t.text],
                          Tail(row), cols)
               ELSE Place([row_data EXCEPT ![i] = t.text], Tail(row), cols)

\* a row_data that keeps the slot of every column, filled or not
EnhancedRowDataSlots(row, cols) ==
  LET slots == Place([i \in 1..Len(cols) |-> <<>>], row, cols)
  IN [i \in 1..Len(slots) |-> Strip(slots[i])]

\* row_data = [''] * len(merged_columns); ...;
\* row_data = [cell.strip() for cell in row_data if cell.strip()]
EnhancedRowData(row, cols) ==
  LET slots == Place([i \in 1..Len(cols) |-> <<>>], row, cols)
  IN NonEmpty([i \in 1..Len(slots) |-> Strip(slots[i])])

\* for row in rows: row.sort(...); ...; if row_data: processed_rows.append(row_data)
\* current_row is the list object appended last to rows, so the sort of the
\* last row reorders it as well
AssembleEnhanced ==
  /\ pc = "assemble" /\ mode = "enhanced"
  /\ rows' = [i \in 1..Len(rows) |-> SortX0(rows[i])]
  /\ current_row' = SortX0(current_row)
  /\ page_tables' =
       NonEmpty([i \in 1..Len(rows) |-> EnhancedRowData(SortX0(rows[i]), merged_columns)])
  /\ pc' = "assembled"
  /\ UNCHANGED <<mode, doc, page, text_elements, idx, row_y,
                 column_boundaries, merged_columns, all_tables_data, result_strings, result, raised>>

(* ------------------ the work on one page, taken whole ------------------ *)
\* the basic grouping loop from position i on: rs, cur and ry are rows,
\* current_row and row_y so far
RECURSIVE ClusterBasicFrom(_, _, _, _, _)
ClusterBasicFrom(elems, i, rs, cur, ry) ==
  IF i > Len(elems) THEN (IF cur # <<>> THEN Append(rs, cur) ELSE rs)
  ELSE LET t == elems[i] IN
       IF ry = <<>> THEN ClusterBasicFrom(elems, i + 1, rs, Append(cur, t), <<t.y0>>)
       ELSE IF BasicSameRow(t.y0, ry[1])
       THEN ClusterBasicFrom(elems, i + 1, rs, Append(cur, t), ry)
       ELSE ClusterBasicFrom(elems, i + 1, IF cur # <<>> THEN Append(rs, cur) ELSE rs,
                             <<t>>, <<t.y0>>)

\* the rows of the basic mode for the sorted fragments elems
ClusterBasic(elems) == ClusterBasicFrom(elems, 1, <<>>, <<>>, <<>>)

\* the enhanced grouping loop from position i on
RECURSIVE ClusterEnhancedFrom(_, _, _, _)
ClusterEnhancedFrom(elems, i, rs, cur) ==
  IF i > Len(elems) THEN (IF cur # <<>> THEN Append(rs, cur) ELSE rs)
  ELSE LET t == elems[i] IN
       IF cur = <<>> THEN ClusterEnhancedFrom(elems, i + 1, rs, <<t>>)
       ELSE IF EnhancedSameRow(cur, t.y0)
       THEN ClusterEnhancedFrom(elems, i + 1, rs, Append(cur, t))
       ELSE ClusterEnhancedFrom(elems, i + 1, Append(rs, cur), <<t>>)

\* the rows of the enhanced mode for the sorted fragments elems
ClusterEnhanced(elems) == ClusterEnhancedFrom(elems, 1, <<>>, <<>>)

\* the rows the page pg is grouped into in mode m
PageRows(m, pg) ==
  IF m = "basic" THEN ClusterBasic(SortYDesc(Collect(pg)))
  ELSE ClusterEnhanced(SortYDesc(Collect(pg)))

\* the merged columns of the page pg
PageColumns(pg) == ResolveColumns(Walk(PageRows("enhanced", pg)))

\* the rows of cells the page pg adds to all_tables_data in mode m
PageTables(m, pg) ==
  LET rs == PageRows(m, pg) IN
  IF Collect(pg) = <<>> THEN <<>>
  ELSE IF m = "basic"
  THEN NonEmpty([i \in 1..Len(rs) |-> BasicRowData(SortX0(rs[i]))])
  ELSE NonEmpty([i \in 1..Len(rs) |-> EnhancedRowData(SortX0(rs[i]), PageColumns(pg))])

\* a variant that puts the rows of the page in front of the rows so far
NextPagePrepend ==
  /\ pc = "assembled"
  /\ all_tables_data' = page_tables \o all_tables_data
  /\ page' = page + 1
  /\ pc' = "page"
  /\ UNCHANGED <<mode, doc, text_elements, idx, rows, current_row, row_y,
                 column_boundaries, merged_columns, page_tables, result_strings, result, raised>>

\* all_tables_data.extend(page_tables), then the next page_layout
NextPage ==
  /\ pc = "assembled"
  /\ all_tables_data' = all_tables_data \o page_tables
  /\ page' = page + 1
  /\ pc' = "page"
  /\ UNCHANGED <<mode, doc, text_elements, idx, rows, current_row, row_y,
                 column_boundaries, merged_columns, page_tables, result_strings, result, raised>>

(* ---------------------------- serializing ------------------------------ *)
\* a variant without the padding spaces
RowStrBare(cells) == <<"\t">> \o Join(<<"\t">>, cells) \o <<"\t">>

\* row_str = "\t " + " \t ".join(row) + " \t"
RowStr(cells) == <<"\t", " ">> \o Join(<<" ", "\t", " ">>, cells) \o <<" ", "\t">>

\* for row in all_tables_data: result_strings.append(row_str)
ResultStrings(table) == [i \in 1..Len(table) |-> RowStr(table[i])]

(* ------------- LoadingService.extract_pdf_tables, taken whole ---------- *)
\* abs(text['y0'] - row_y) < row_threshold
ServiceSameRow(y, ref) == Abs(y - ref) < ServiceRowThreshold

\* the grouping loop of the service from position i on
RECURSIVE ServiceClusterFrom(_, _, _, _, _)
ServiceClusterFrom(elems, i, rs, cur, ry) ==
  IF i > Len(elems) THEN (IF cur # <<>> THEN Append(rs, cur) ELSE rs)
  ELSE LET t == elems[i] IN
       IF ry = <<>> THEN ServiceClusterFrom(elems, i + 1, rs, Append(cur, t), <<t.y0>>)
       ELSE IF ServiceSameRow(t.y0, ry[1])
       THEN ServiceClusterFrom(elems, i + 1, rs, Append(cur, t), ry)
       ELSE ServiceClusterFrom(elems, i + 1, IF cur # <<>> THEN Append(rs, cur) ELSE rs,
                               <<t>>, <<t.y0>>)

\* row_data of the service: re.sub(r'\s+', ' ', cell['text']).strip(), empty ones left out
ServiceRowData(row) ==
  NonEmpty([i \in 1..Len(row) |-> Strip(CollapseWS(row[i].text))])

\* page_tables of the service for the page pg
ServicePageTables(pg) ==
  IF Collect(pg) = <<>> THEN <<>>
  ELSE LET rs == ServiceClusterFrom(SortYDesc(Collect(pg)), 1, <<>>, <<>>, <<>>)
       IN NonEmpty([i \in 1..Len(rs) |-> ServiceRowData(SortX0(rs[i]))])

\* the service after the pages 1..n of the document d: the exception that
\* left extract_pages at one of them, if any, and all_tables_data.  Nothing
\* in the method catches the exception, so the pages after it are not read.
RECURSIVE ServiceRun(_, _)
ServiceRun(d, n) ==
  IF n = 0 THEN [raised |-> <<>>, all_tables_data |-> <<>>]
  ELSE LET before == ServiceRun(d, n - 1) IN
       IF before.raised # <<>> THEN before
       ELSE IF IsFault(d[n])
       THEN [raised |-> <<d[n][1].text>>, all_tables_data |-> before.all_tables_data]
       ELSE [raised |-> <<>>,
             all_tables_data |-> before.all_tables_data \o ServicePageTables(d[n])]

\* row_str = "\t " + " \t ".join(row) + " \t"
ServiceRowStr(cells) ==
  <<"\t", " ">> \o Join(<<" ", "\t", " ">>, cells) \o <<" ", "\t">>

\* how the call of the service on the document d ends: with the exception
\* raised and nothing returned, or with nothing raised and the list of row
\* strings returned (returned holds the list, or is empty when the call raised)
ServiceExtract(d) ==
  LET run == ServiceRun(d, Len(d))
      t == run.all_tables_data
  IN IF run.raised # <<>>
     THEN [raised |-> run.raised, returned |-> <<>>]
     ELSE [raised |-> <<>>, returned |-> << [i \in 1..Len(t) |-> ServiceRowStr(t[i])] >>]

\* the loop over all_tables_data, then return "\n".join(result_strings)
Serialize ==
  /\ pc = "page" /\ page > Len(doc)
  /\ result_strings' = ResultStrings(all_tables_data)
  /\ result' = Join(<<"\n">>, ResultStrings(all_tables_data))
  /\ pc' = "done"
  /\ UNCHANGED <<mode, doc, page, text_elements, idx, rows, current_row, row_y,
                 column_boundaries, merged_columns, page_tables, all_tables_data, raised>>

Next ==
  \/ CollectPage
  \/ SkipEmptyPage
  \/ SortPage
  \/ BasicOpenRow
  \/ BasicAppend
  \/ BasicSplit
  \/ EnhancedOpenRow
  \/ EnhancedAppend
  \/ EnhancedSplit
  \/ ClusterFinish
  \/ SortRows
  \/ AssembleBasic
  \/ DiscoverFirst
  \/ DiscoverExtend
  \/ DiscoverNew
  \/ MergeStep
  \/ AssembleEnhanced
  \/ NextPage
  \/ Serialize

\* documents of one page with boxes that exercise the row grouping
Spec == Init /\ [][Next]_vars
\* documents of one page with texts that exercise cleaning and serializing
SpecText == InitText /\ [][Next]_vars
\* documents of one page with boxes that exercise the column inference
SpecCols == InitCols /\ [][Next]_vars

\* the steps of a call whose extract_pages can raise
NextFault == Next \/ RaiseLayoutFault

\* documents of several pages, some of which make extract_pages raise
SpecPages == InitPages /\ [][NextFault]_vars
\* the documents of one page with texts and the documents of several pages,
\* some of which make extract_pages raise: what both basic implementations
\* are compared on
InitService ==
  InitWith({ <<p>> : p \in TextPages(MaxTextElems) }
             \cup Docs(SoundShapes \cup {FaultShape}, MaxPages))
SpecService == InitService /\ [][NextFault]_vars
\* documents of several sound pages, run by one thread that keeps going
SpecLive == InitSound /\ [][Next]_vars /\ WF_vars(Next)

(* ======================= properties of the rows ======================== *)
\* the y0 of the fragments of a sequence, in order
Ys(fs) == [i \in 1..Len(fs) |-> fs[i].y0]
Ids(fs) == { fs[i].id : i \in 1..Len(fs) }

\* the row grouping of the current page has ended and the rows still hold
\* their fragments in the order they were added
Clustered == pc = "xsort" \/ (pc = "discover" /\ idx = 1)
\* the rows of the current page are complete
RowsBuilt == pc \in {"xsort", "discover", "assemble", "assembled"}

\* C1: basic mode, pinned reference.  While a page is grouped and once it is
\* grouped, every fragment of every row (the open row included) lies less
\* than 5 from the first fragment added to that row, and the reference row_y
\* is the y0 of the first fragment of the open row: appending does not move it.
C1_PinnedReference ==
  (mode = "basic" /\ pc \in {"cluster", "xsort"}) =>
    /\ \A r \in 1..Len(rows) : \A k \in 1..Len(rows[r]) :
         Abs(rows[r][k].y0 - rows[r][1].y0) < 5
    /\ \A k \in 1..Len(current_row) : Abs(current_row[k].y0 - current_row[1].y0) < 5
    /\ current_row # <<>> => row_y = <<current_row[1].y0>>

\* C1 witness: the chain 12, 8, 4, 0 grouped in basic mode: 8 joined the row
\* of 12, and 4, which is within 5 of 8 but not of 12, opened the second row.
C1_Witness ==
  /\ mode = "basic" /\ pc = "xsort"
  /\ Len(rows) = 2
  /\ Ys(rows[1]) = <<12, 8>>
  /\ Ys(rows[2]) = <<4, 0>>

\* C2: enhanced mode, chained grouping.  The rows are the maximal runs of the
\* y0-descending fragment sequence in which each fragment lies less than 8
\* from the fragment before it: inside a row consecutive fragments differ by
\* less than 8, the first fragment of a row differs by 8 or more from the last
\* fragment of the row before.  Fragments at 12, 8, 4, 0 form one single row.
C2_ChainedRows ==
  (mode = "enhanced" /\ Clustered) =>
    /\ Walk(rows) = text_elements
    /\ \A r \in 1..Len(rows) :
         /\ rows[r] # <<>>
         /\ \A k \in 2..Len(rows[r]) : Abs(rows[r][k].y0 - rows[r][k - 1].y0) < 8
         /\ r > 1 => Abs(rows[r][1].y0 - rows[r - 1][Len(rows[r - 1])].y0) >= 8
    /\ Ys(text_elements) = <<12, 8, 4, 0>> => Len(rows) = 1

\* C2 witness: the fragments at 12, 8, 4, 0 are one row whose first and last
\* fragment are 12 apart.
C2_Witness ==
  /\ mode = "enhanced" /\ Clustered
  /\ Len(rows) = 1
  /\ Ys(rows[1]) = <<12, 8, 4, 0>>
  /\ rows[1][1].y0 - rows[1][4].y0 = 12

\* C3: in both modes the rows partition the page's fragments with non-empty
\* text: no row is empty, and every collected fragment is in the rows exactly once.
C3_RowsPartition ==
  RowsBuilt =>
    /\ \A r \in 1..Len(rows) : rows[r] # <<>>
    /\ Len(Walk(rows)) = Len(Collect(doc[page]))
    /\ Ids(Walk(rows)) = Ids(Collect(doc[page]))
    /\ \A i, j \in 1..Len(Walk(rows)) : Walk(rows)[i].id = Walk(rows)[j].id => i = j

\* C3 witness: a page of four fragments grouped into a row of two and two rows of one.
C3_Witness ==
  /\ RowsBuilt
  /\ Len(Collect(doc[page])) = 4
  /\ Len(rows) = 3
  /\ \E r \in 1..3 : Len(rows[r]) = 2

\* C4: the rows of a page are ordered top to bottom: every fragment of an
\* earlier row has a y0 greater than or equal to that of every fragment of a later row.
C4_RowsTopToBottom ==
  RowsBuilt =>
    \A i, j \in 1..Len(rows) : i < j =>
      \A a \in 1..Len(rows[i]) : \A b \in 1..Len(rows[j]) :
        rows[i][a].y0 >= rows[j][b].y0

\* C4 witness: three rows, built from a page whose fragments do not appear top to bottom.
C4_Witness ==
  /\ RowsBuilt
  /\ Len(rows) = 3
  /\ \E i, j \in 1..Len(doc[page]) : i < j /\ doc[page][i].y0 < doc[page][j].y0

(* ================= properties of cells and row strings ================= *)
\* the lines of a text: nothing for the empty text, else the parts between newlines
Lines(s) == IF s = <<>> THEN <<>> ELSE SplitOn(s, "\n")

\* a row string split on the tab character, without its first and last
\* token (both empty: the row string starts and ends with a tab)
InnerTokens(s) == SubSeq(SplitOn(s, "\t"), 2, Len(SplitOn(s, "\t")) - 1)

\* a cell between the two spaces the row string puts around it
Padded(cells) == [k \in 1..Len(cells) |-> <<" ">> \o cells[k] \o <<" ">>]

\* a text without leading or trailing whitespace whose only whitespace is single spaces
IsCleaned(c) ==
  /\ c # <<>>
  /\ ~IsSpace(c[1]) /\ ~IsSpace(c[Len(c)])
  /\ \A k \in 1..Len(c) : IsSpace(c[k]) => (c[k] = " " /\ ~IsSpace(c[k - 1]))

ScenarioE == <<"T", "o", "t", "a", "l", ":", "\n", " ", " ", "4", "2", " ">>
ScenarioECell == <<"T", "o", "t", "a", "l", ":", " ", "4", "2">>

\* C5: when the function returns, every row has at least one cell, its row
\* string is tab, space, the cells joined by space-tab-space, space, tab, the
\* result is the row strings joined by newlines in row order, and the result
\* has one line per row: its lines are the row strings.
C5_SerializedRows ==
  pc = "done" =>
    /\ Len(result_strings) = Len(all_tables_data)
    /\ \A i \in 1..Len(all_tables_data) :
         /\ Len(all_tables_data[i]) >= 1
         /\ result_strings[i] =
              <<"\t", " ">> \o Join(<<" ", "\t", " ">>, all_tables_data[i]) \o <<" ", "\t">>
    /\ result = Join(<<"\n">>, result_strings)
    /\ Lines(result) = result_strings

\* the part of C5 that is about the layout of a row string and of the result
RowStringLayout ==
  pc = "done" =>
    /\ Len(result_strings) = Len(all_tables_data)
    /\ \A i \in 1..Len(all_tables_data) :
         /\ Len(all_tables_data[i]) >= 1
         /\ result_strings[i] =
              <<"\t", " ">> \o Join(<<" ", "\t", " ">>, all_tables_data[i]) \o <<" ", "\t">>
    /\ result = Join(<<"\n">>, result_strings)

\* C6 as stated: the inner tokens of every row string are the cells of the row,
\* as many and the same texts in the same order, in either mode.
C6_RoundTripExact ==
  pc = "done" =>
    \A i \in 1..Len(all_tables_data) :
      /\ Len(InnerTokens(result_strings[i])) = Len(all_tables_data[i])
      /\ InnerTokens(result_strings[i]) = all_tables_data[i]

\* C6 amended: in basic mode the inner tokens of every row string are as many
\* as the cells of the row and token k is cell k between two spaces, so that
\* trimming the token gives the cell; in either mode the inner tokens joined by
\* tabs are the padded cells joined by tabs.
C6_RoundTripPadded ==
  pc = "done" =>
    \A i \in 1..Len(all_tables_data) :
      /\ Join(<<"\t">>, InnerTokens(result_strings[i]))
           = Join(<<"\t">>, Padded(all_tables_data[i]))
      /\ mode = "basic" =>
           /\ Len(InnerTokens(result_strings[i])) = Len(all_tables_data[i])
           /\ InnerTokens(result_strings[i]) = Padded(all_tables_data[i])
           /\ \A k \in 1..Len(all_tables_data[i]) :
                Strip(InnerTokens(result_strings[i])[k]) = all_tables_data[i][k]

\* C6 witness: basic mode has returned a row of two cells, one of them from a
\* text with an embedded tab, and the row string splits into the two padded cells.
C6_Witness ==
  /\ pc = "done" /\ mode = "basic"
  /\ \E i \in 1..Len(all_tables_data) :
       /\ Len(all_tables_data[i]) = 2
       /\ all_tables_data[i][1] = <<"c", " ", "d">>
       /\ InnerTokens(result_strings[i]) = << <<" ", "c", " ", "d", " ">>,
                                              <<" ">> \o all_tables_data[i][2] \o <<" ">> >>

\* C7: in both modes every cell of an assembled page is cleaned: no leading
\* or trailing whitespace and every whitespace run a single space; a page
\* whose only fragment has the text "Total:\n  42 " gives the cell "Total: 42".
C7_CellsCleaned ==
  pc = "assembled" =>
    /\ \A i \in 1..Len(page_tables) : \A k \in 1..Len(page_tables[i]) :
         IsCleaned(page_tables[i][k])
    /\ (Len(doc[page]) = 1 /\ doc[page][1].text = ScenarioE) =>
         page_tables = << <<ScenarioECell>> >>

\* the statement of C7 for basic mode alone
CellsCleanedBasic == mode = "basic" => C7_CellsCleaned

(* ================== properties of basic mode assembly ================== *)
\* the row, counted in rows, that holds the k-th fragment of Walk(rows)
RECURSIVE RowOfFrom(_, _, _)
RowOfFrom(rs, k, r) ==
  IF k <= Len(rs[r]) THEN r ELSE RowOfFrom(rs, k - Len(rs[r]), r + 1)

RowOf(rs, k) == RowOfFrom(rs, k, 1)

\* C8: basic mode assembly.  Every row of the page gives one row of cells,
\* with one cell for each fragment of the row: the fragments of a row are in
\* non-decreasing x0 order and cell k is the text of fragment k (here the
\* letter of the fragment, which needs no cleaning).  Two fragments at
\* y0 = 100 with x0 = 10 and x0 = 60 give one row [cell at 10, cell at 60],
\* whichever appears first in the page.
C8_BasicCellsInXOrder ==
  (mode = "basic" /\ pc = "assembled") =>
    /\ Len(page_tables) = Len(rows)
    /\ Ids(Walk(rows)) = Ids(Collect(doc[page]))
    /\ \A r \in 1..Len(rows) :
         /\ Len(page_tables[r]) = Len(rows[r])
         /\ \A k \in 1..Len(rows[r]) :
              /\ k > 1 => rows[r][k - 1].x0 <= rows[r][k].x0
              /\ page_tables[r][k] = doc[page][rows[r][k].id].text
    /\ \A a, b \in {1, 2} :
         ( /\ Len(doc[page]) = 2
           /\ doc[page][a].y0 = 100 /\ doc[page][a].x0 = 10
           /\ doc[page][b].y0 = 100 /\ doc[page][b].x0 = 60 )
         => page_tables = << <<doc[page][a].text, doc[page][b].text>> >>

\* C8 witness: the fragment at x0 = 60 appears before the fragment at x0 = 10,
\* both at y0 = 100, and the row of cells is [cell at 10, cell at 60]; a second
\* page shape, with rows of two cells and of one cell, is C8_WitnessRagged.
C8_Witness ==
  /\ mode = "basic" /\ pc = "assembled"
  /\ Len(doc[page]) = 2
  /\ doc[page][1].y0 = 100 /\ doc[page][1].x0 = 60
  /\ doc[page][2].y0 = 100 /\ doc[page][2].x0 = 10
  /\ page_tables = << << <<"b">>, <<"a">> >> >>

\* rows of one page with different cell counts
C8_WitnessRagged ==
  /\ mode = "basic" /\ pc = "assembled"
  /\ \E i, j \in 1..Len(page_tables) : Len(page_tables[i]) = 1 /\ Len(page_tables[j]) = 2

\* C9: basic mode splits on a difference of 5 or more.  Along the y0-descending
\* fragment sequence a fragment starts a new row exactly when it lies 5 or more
\* from the first fragment of the row of the fragment before it; the first
\* fragment of every row but the first lies at least 5 below the first fragment
\* of the row before; fragments at 100 and 110 give two rows of one cell each.
C9_BasicSplitAtFive ==
  (mode = "basic" /\ pc \in {"xsort", "assembled"}) =>
    /\ pc = "xsort" =>
         /\ Walk(rows) = text_elements
         /\ \A k \in 2..Len(text_elements) :
              (RowOf(rows, k) # RowOf(rows, k - 1))
                <=> (Abs(text_elements[k].y0 - rows[RowOf(rows, k - 1)][1].y0) >= 5)
         /\ \A r \in 2..Len(rows) : rows[r - 1][1].y0 - rows[r][1].y0 >= 5
    /\ Ys(text_elements) = <<110, 100>> =>
         /\ Len(rows) = 2 /\ Len(rows[1]) = 1 /\ Len(rows[2]) = 1
         /\ pc = "assembled" => (Len(page_tables) = 2 /\ Len(page_tables[1]) = 1
                                 /\ Len(page_tables[2]) = 1)

\* C9 witness: fragments at 100 and 110 assembled into two rows of one cell.
C9_Witness ==
  /\ mode = "basic" /\ pc = "assembled"
  /\ Ys(text_elements) = <<110, 100>>
  /\ Len(page_tables) = 2 /\ Len(page_tables[1]) = 1 /\ Len(page_tables[2]) = 1

\* fragments exactly 5 apart are in two rows
C9_WitnessExactlyFive ==
  /\ mode = "basic" /\ pc = "xsort"
  /\ Ys(text_elements) = <<105, 100>>
  /\ Len(rows) = 2

(* ===================== properties of the column merge ================== *)
\* C10: the merge phase is idempotent: merged_columns, the result of the merge
\* phase on the column_boundaries of a page, is returned unchanged by a second
\* merge phase, and so is the merge of the boundaries found so far at any
\* point of the discovery.
C10_MergeIdempotent ==
  /\ (mode = "enhanced" /\ pc \in {"assemble", "assembled"}) =>
       MergeColumns(merged_columns) = merged_columns
  /\ pc = "discover" =>
       MergeColumns(MergeColumns(column_boundaries)) = MergeColumns(column_boundaries)

\* C10 witness: a merge phase that merged some of three boundaries and kept two columns.
C10_Witness ==
  /\ mode = "enhanced" /\ pc = "assemble"
  /\ Len(column_boundaries) = 3
  /\ Len(merged_columns) = 2
  /\ MergeColumns(merged_columns) = merged_columns

(* ------------------------- C11: the merge rule -------------------------- *)
\* the largest xmax among S[i..j]
SpanMax(S, i, j) == CHOOSE m \in {S[k].xmax : k \in i..j} : \A k \in i..j : S[k].xmax <= m

\* the positions of the sorted list S that start a new merged interval: the
\* first, and every one lying more than MergeGap right of all before it
GroupStarts(S) ==
  {k \in 1..Len(S) : k = 1 \/ \A j \in 1..(k - 1) : S[k].xmin > S[j].xmax + MergeGap}

\* the last position of the group that starts at k
GroupEnd(S, k) ==
  IF \E b \in GroupStarts(S) : b > k
  THEN (CHOOSE b \in GroupStarts(S) : b > k /\ \A c \in GroupStarts(S) : c > k => b <= c) - 1
  ELSE Len(S)

\* M is S with every group replaced by its span
MergedBySpan(S, M) ==
  /\ Len(M) = Cardinality(GroupStarts(S))
  /\ \A k \in GroupStarts(S) :
       LET n == Cardinality({b \in GroupStarts(S) : b <= k}) IN
       M[n] = [xmin |-> S[k].xmin, xmax |-> SpanMax(S, k, GroupEnd(S, k))]

\* C11: the merge phase sorts the intervals by xmin and walks them left to
\* right; an interval is joined to the last merged one exactly when its xmin
\* is at most that one's xmax + 10 (the boundary included), the joined
\* interval spans both, and any other interval starts a new merged interval.
\* [0,20] and [28,40] merge into [0,40].
C11_MergeRule ==
  [][(pc = "discover" /\ pc' = "assemble") =>
       /\ MergedBySpan(SortXmin(column_boundaries), merged_columns')
       /\ column_boundaries = <<[xmin |-> 0, xmax |-> 20], [xmin |-> 28, xmax |-> 40]>>
            => merged_columns' = <<[xmin |-> 0, xmax |-> 40]>>]_vars

\* the merge has joined [28,40] and [50,60], whose gap is exactly MergeGap,
\* and has kept an interval further right apart
C11_Witness ==
  /\ pc = "assemble" /\ mode = "enhanced"
  /\ Len(merged_columns) = 2
  /\ merged_columns[1] = [xmin |-> 28, xmax |-> 60]
  /\ \E i \in 1..Len(column_boundaries) : column_boundaries[i].xmin = 50

\* Scenario D has been merged
C11_WitnessScenarioD ==
  /\ pc = "assemble" /\ mode = "enhanced"
  /\ merged_columns = <<[xmin |-> 0, xmax |-> 40]>>
  /\ Len(column_boundaries) = 2

(* -------------------- C12: the final column list ----------------------- *)
\* C12: the final interval list of a page is ordered by xmin strictly
\* ascending, consecutive intervals a, b satisfy b.xmin > a.xmax + 10, and
\* every interval has xmin <= xmax.
C12_ColumnsSeparated ==
  /\ \A i \in 1..Len(merged_columns) : merged_columns[i].xmin <= merged_columns[i].xmax
  /\ \A i \in 1..(Len(merged_columns) - 1) :
       /\ merged_columns[i].xmin < merged_columns[i + 1].xmin
       /\ merged_columns[i + 1].xmin > merged_columns[i].xmax + MergeGap

\* the merge has joined some of three discovered intervals and kept two columns
C12_Witness ==
  /\ pc = "assemble" /\ mode = "enhanced"
  /\ Len(column_boundaries) = 3
  /\ Len(merged_columns) = 2

(* ----------------------- C18: interval discovery ----------------------- *)
\* the intervals of cb whose range, widened by 5 on both sides, holds x0 of t
Matching(cb, t) ==
  {i \in 1..Len(cb) : cb[i].xmin - 5 <= t.x0 /\ t.x0 <= cb[i].xmax + 5}

\* C18: discovery is first-fit. For each visited fragment the first interval
\* in list order with xmin - 5 <= x0 <= xmax + 5 is extended to
\* [min(xmin, x0), max(xmax, x1)] and no other interval changes; when none
\* matches, [x0, x1] is appended at the end. During discovery no interval is
\* removed, no xmin increases and no xmax decreases.
C18_FirstFitDiscovery ==
  [][(pc = "discover" /\ pc' = "discover") =>
       LET t == Walk(rows)[idx]
           cb == column_boundaries
           m == Matching(cb, t)
       IN /\ IF m # {}
             THEN LET f == CHOOSE i \in m : \A j \in m : i <= j IN
                  /\ Len(column_boundaries') = Len(cb)
                  /\ column_boundaries'[f] = [xmin |-> Min(cb[f].xmin, t.x0),
                                              xmax |-> Max(cb[f].xmax, t.x1)]
                  /\ \A i \in 1..Len(cb) : i # f => column_boundaries'[i] = cb[i]
             ELSE column_boundaries' = cb \o << [xmin |-> t.x0, xmax |-> t.x1] >>
          /\ Len(column_boundaries') >= Len(cb)
          /\ \A i \in 1..Len(cb) :
               /\ column_boundaries'[i].xmin <= cb[i].xmin
               /\ column_boundaries'[i].xmax >= cb[i].xmax]_vars

\* the fragment [45,70] has been visited after [50,60] and [28,40], both of
\* which match it: the first was extended on both sides, the second kept
C18_Witness ==
  /\ pc = "discover" /\ idx = 4
  /\ column_boundaries = << [xmin |-> 45, xmax |-> 70], [xmin |-> 28, xmax |-> 40] >>

(* --------------- C19, C20: the order of the discovery ------------------ *)
\* the rearrangements of the positions 1..n
Perms(n) == {f \in [1..n -> 1..n] : \A i, j \in 1..n : i # j => f[i] # f[j]}

\* the sequence seq visited in the order f
Permute(seq, f) == [i \in 1..Len(seq) |-> seq[f[i]]]

\* the intervals of a list, whatever their order
IntervalSet(cb) == {cb[i] : i \in 1..Len(cb)}

\* the step-by-step discovery and merge agree with the loops taken whole
ResolverAgrees ==
  /\ (mode = "enhanced" /\ pc = "discover") =>
       column_boundaries = DiscoverAll(<<>>, SubSeq(Walk(rows), 1, idx - 1))
  /\ (mode = "enhanced" /\ pc = "assemble") => merged_columns = ResolveColumns(Walk(rows))

\* C19 as stated: in column-exact mode some page has an order of its
\* fragments under which the final (post-merge) column list differs from
\* that of another order
C19_FinalListOrderDependent ==
  mode = "enhanced" =>
    \E pg \in BoxPages(ColBoxes, MaxColElems) :
      \E f \in Perms(Len(Collect(pg))) :
        ResolveColumns(Permute(Collect(pg), f)) # ResolveColumns(Collect(pg))

\* C19, as the code behaves: the order in which the fragments of a page are
\* visited can change the pre-merge list of the discovery ([28,40], [0,20],
\* [0,100] give [28,40],[0,100]; [0,20] first gives [0,100] alone), but every
\* order of the page's fragments gives the same final merged list.
C19_OnlyDiscoveryOrderDependent ==
  /\ ResolverAgrees
  /\ (mode = "enhanced" /\ pc = "assemble") =>
       \A f \in Perms(Len(Walk(rows))) :
         ResolveColumns(Permute(Walk(rows), f)) = merged_columns
  /\ LET a == [x0 |-> 28, x1 |-> 40]
         b == [x0 |-> 0, x1 |-> 20]
         c == [x0 |-> 0, x1 |-> 100]
     IN /\ DiscoverAll(<<>>, <<a, b, c>>) =
             << [xmin |-> 28, xmax |-> 40], [xmin |-> 0, xmax |-> 100] >>
        /\ DiscoverAll(<<>>, <<b, c, a>>) = << [xmin |-> 0, xmax |-> 100] >>

\* a page has been resolved for which another order of its fragments finds
\* other intervals before the merge
C19_Witness ==
  /\ mode = "enhanced" /\ pc = "assemble"
  /\ Len(Walk(rows)) = 3
  /\ \E f \in Perms(3) :
       IntervalSet(DiscoverAll(<<>>, Permute(Walk(rows), f))) #
         IntervalSet(DiscoverAll(<<>>, Walk(rows)))

\* C20: feeding the rows of a page to the discovery in another order, each
\* row keeping its fragments, leaves the final merged column list unchanged.
C20_RowOrderIrrelevant ==
  (mode = "enhanced" /\ pc = "assemble") =>
    \A g \in Perms(Len(rows)) : ResolveColumns(Walk(Permute(rows, g))) = merged_columns

\* a page of two rows has been resolved, and the rows fed in the other order
\* find other intervals before the merge
C20_Witness ==
  /\ mode = "enhanced" /\ pc = "assemble"
  /\ Len(rows) = 2
  /\ merged_columns # <<>>
  /\ IntervalSet(DiscoverAll(<<>>, Walk(<<rows[2], rows[1]>>))) #
       IntervalSet(DiscoverAll(<<>>, Walk(rows)))

(* ------------------- C16: no empty row, no empty cell ------------------ *)
\* every row of the table t has a cell and every cell has a character
NoEmptyRowOrCell(t) ==
  \A i \in 1..Len(t) : t[i] # <<>> /\ \A k \in 1..Len(t[i]) : t[i][k] # <<>>

\* C16: in both modes no emitted row has zero cells and no emitted cell is
\* the empty string; a row without cells is not in the table and has no
\* output line.
C16_NoEmptyRowOrCell ==
  /\ pc \in {"assembled", "page", "done"} => NoEmptyRowOrCell(page_tables)
  /\ NoEmptyRowOrCell(all_tables_data)
  /\ pc = "done" =>
       /\ Len(result_strings) = Len(all_tables_data)
       /\ \A i \in 1..Len(result_strings) : result_strings[i] = RowStr(all_tables_data[i])

\* a page of two columns has been assembled in column-exact mode and its
\* second row, with a fragment in the first column only, has one cell
C16_Witness ==
  /\ mode = "enhanced" /\ pc = "assembled"
  /\ Len(merged_columns) = 2
  /\ Len(page_tables) = 2
  /\ Len(page_tables[1]) = 2 /\ Len(page_tables[2]) = 1

\* a page whose fragments are all blank has been passed over: no row, no line
C16_WitnessBlankPage ==
  /\ pc = "done" /\ doc[1] # <<>>
  /\ \A i \in 1..Len(doc[1]) : doc[1][i].kind = "text"
  /\ result_strings = <<>> /\ result = <<>>

(* ===================== documents of several pages ====================== *)
\* the letters of the usable fragments of the pages ps of the document
UsableLetters(ps) ==
  UNION { {doc[p][i].text[1] : i \in {k \in 1..Len(doc[p]) :
             doc[p][k].kind = "text" /\ Strip(doc[p][k].text) # <<>>}} : p \in ps }

\* the letters in the cells of the table t
EmittedLetters(t) ==
  UNION {UNION {{t[i][k][c] : c \in 1..Len(t[i][k])} : k \in 1..Len(t[i])} : i \in 1..Len(t)}
    \ {" "}

\* the page and the height of the fragment that carries the letter ch
LetterIndex(ch) == CHOOSE k \in 1..Len(Letters) : Letters[k] = ch
LetterPage(ch) == ((LetterIndex(ch) - 1) \div 2) + 1
LetterY(ch) ==
  LET p == LetterPage(ch)
      i == CHOOSE k \in 1..Len(doc[p]) : doc[p][k].text = <<ch>>
  IN doc[p][i].y0

\* a page without usable fragment is about to be fetched
AtUnusablePage ==
  /\ pc = "page" /\ page <= Len(doc)
  /\ ~IsFault(doc[page])
  /\ Collect(doc[page]) = <<>>

\* C13: a page with no usable text fragment is no error in either mode: it
\* adds no row, no output line and no column interval, raises no fault, and
\* the pages after it are processed and contribute their rows.
C13_UnusablePageSkipped ==
  [][/\ AtUnusablePage =>
          /\ all_tables_data' = all_tables_data
          /\ column_boundaries' = column_boundaries
          /\ merged_columns' = merged_columns
          /\ rows' = rows
          /\ raised' = <<>> /\ pc' = "page"
          /\ page' = page + 1
     /\ pc' = "done" =>
          /\ EmittedLetters(all_tables_data') = UsableLetters(1..Len(doc))
          /\ Len(result_strings') = Len(all_tables_data')]_vars

\* the call has returned for a document whose first page has no usable
\* fragment and whose second page has two rows: two rows, two lines
C13_Witness ==
  /\ pc = "done" /\ Len(doc) >= 2
  /\ Collect(doc[1]) = <<>>
  /\ Len(Collect(doc[2])) = 2
  /\ Len(all_tables_data) = 2 /\ Len(result_strings) = 2

\* C14: the output rows are the rows of the pages in ascending page order,
\* the rows of a page top to bottom: no row of a later page comes before a
\* row of an earlier page, and at the return every usable fragment is in
\* exactly one row.
C14_PageOrder ==
  /\ \A i \in 1..Len(all_tables_data) :
       \A k \in 1..Len(all_tables_data[i]) :
         LetterPage(all_tables_data[i][k][1]) = LetterPage(all_tables_data[i][1][1])
  /\ \A i, j \in 1..Len(all_tables_data) : i < j =>
       LET a == all_tables_data[i][1][1]
           b == all_tables_data[j][1][1]
       IN \/ LetterPage(a) < LetterPage(b)
          \/ LetterPage(a) = LetterPage(b) /\ LetterY(a) > LetterY(b)
  /\ pc = "done" =>
       /\ EmittedLetters(all_tables_data) = UsableLetters(1..Len(doc))
       /\ \A i, j \in 1..Len(all_tables_data) : i # j =>
            EmittedLetters(<<all_tables_data[i]>>) \cap EmittedLetters(<<all_tables_data[j]>>) = {}

\* the call has returned for three pages with rows: the two rows of the first
\* page, then the row of the second, then the row of the third
C14_Witness ==
  /\ pc = "done" /\ Len(doc) = 3
  /\ Len(all_tables_data) = 4
  /\ all_tables_data[1] = << <<"b">> >> /\ all_tables_data[2] = << <<"a">> >>
  /\ LetterPage(all_tables_data[3][1][1]) = 2
  /\ LetterPage(all_tables_data[4][1][1]) = 3

(* ------------------- C15: a fault of the layout step ------------------- *)
\* C15 as stated: when the layout extraction raises at a page, the fault
\* reaches the caller as a DocumentLayoutError, and the rows of the pages
\* already processed are not discarded: they are in what the call hands over.
C15_FaultAbortsPageOnly ==
  pc = "raised" =>
    /\ raised = <<"DocumentLayoutError">>
    /\ result_strings = ResultStrings(all_tables_data)

\* what the code does: the exception of the PDF library leaves the call as it
\* is, nothing is retried or resumed, and nothing is returned
FaultEndsCall ==
  pc = "raised" =>
    /\ raised = <<FaultElement.text>>
    /\ IsFault(doc[page])
    /\ ~ENABLED NextFault
    /\ result_strings = <<>> /\ result = <<>>

\* the layout step has raised at the second page, after a row of the first
FaultAfterRows ==
  /\ pc = "raised" /\ page = 2
  /\ all_tables_data # <<>>
  /\ result = <<>>

(* --------------------------- C17: termination -------------------------- *)
\* C17: for every finite document the extraction in either mode terminates:
\* every loop consumes a finite sequence and the call reaches its return.
C17_Terminates == <>(pc = "done")

\* the call has returned after three pages, the last with two rows to
\* cluster, resolve, assemble and serialize
C17_Witness ==
  /\ pc = "done" /\ Len(doc) = 3
  /\ page = 4
  /\ Len(Collect(doc[3])) = 2
  /\ Len(result_strings) >= 2

(* ---------------- C21: when the rows are sorted by x0 ------------------ *)
\* the fragments of the sequence are in non-decreasing x0 order
X0Ascending(row) == \A i \in 1..(Len(row) - 1) : row[i].x0 <= row[i + 1].x0

\* C21 as stated: in column-exact mode the interval discovery walks the
\* fragments of every row in non-decreasing x0 order.
C21_DiscoverySeesSortedRows ==
  (mode = "enhanced" /\ pc = "discover") => \A i \in 1..Len(rows) : X0Ascending(rows[i])

\* C21, as the code behaves: the discovery and the merge see every row in
\* the clustering order (the y0-descending page order, ties in order of
\* appearance); the rows are sorted by x0 only by the assembly, after the
\* columns are resolved.
C21_RowsSortedAtAssembly ==
  /\ (mode = "enhanced" /\ pc \in {"discover", "assemble"}) => Walk(rows) = text_elements
  /\ (mode = "enhanced" /\ pc = "assembled") =>
       /\ \A i \in 1..Len(rows) : X0Ascending(rows[i])
       /\ Walk(rows) = Walk([i \in 1..Len(rows) |-> SortX0(rows[i])])

\* the discovery is visiting a row whose fragments are not in x0 order
C21_Witness ==
  /\ mode = "enhanced" /\ pc = "discover" /\ idx > 1
  /\ \E i \in 1..Len(rows) : ~X0Ascending(rows[i])

(* ---------------- C22: fragments to column slots ----------------------- *)
\* the intervals of cols that hold t within 5 on both sides
FittingSlots(cols, t) ==
  {i \in 1..Len(cols) : t.x0 >= cols[i].xmin - 5 /\ t.x1 <= cols[i].xmax + 5}

\* the slot of t: the leftmost of them, 0 when there is none
SlotOf(cols, t) ==
  IF FittingSlots(cols, t) = {} THEN 0
  ELSE CHOOSE i \in FittingSlots(cols, t) : \A j \in FittingSlots(cols, t) : i <= j

\* the texts of the fragments of row whose slot is i, in the order of row
SlotTexts(row, cols, i) ==
  LET mine == SelectSeq(row, LAMBDA t : SlotOf(cols, t) = i)
  IN [k \in 1..Len(mine) |-> mine[k].text]

\* the cells of a row: per slot the texts joined by one space, empty slots left out
CellsBySlot(row, cols) ==
  NonEmpty([i \in 1..Len(cols) |-> Strip(Join(<<" ">>, SlotTexts(row, cols, i)))])

\* C22: in column-exact mode each fragment of a row goes to the slot of the
\* first interval, left to right, with x0 >= xmin - 5 and x1 <= xmax + 5, and
\* to no other; the text of a slot is the texts of its fragments joined by
\* exactly one space, in ascending x0 order.
C22_SlotAssignment ==
  (mode = "enhanced" /\ pc = "assembled") =>
    /\ \A i \in 1..Len(rows) : X0Ascending(rows[i])
    /\ page_tables =
         NonEmpty([i \in 1..Len(rows) |-> CellsBySlot(rows[i], merged_columns)])

\* a row has been assembled whose fragments [28,40] and [0,100], met in this
\* order, share a slot: the cell holds the text of [0,100] first
C22_Witness ==
  /\ mode = "enhanced" /\ pc = "assembled"
  /\ Len(merged_columns) = 1
  /\ Len(rows) = 1 /\ Len(rows[1]) = 2
  /\ rows[1][1].id = 2 /\ rows[1][1].x0 = 0 /\ rows[1][2].x0 = 28
  /\ page_tables = << << <<"b", " ", "a">> >> >>

(* --------------- C28: every fragment fits one column ------------------- *)
\* C28: in column-exact mode, on a page whose fragments have x0 <= x1, every
\* fragment of the page passes the assembly test (x0 >= xmin - 5 and
\* x1 <= xmax + 5) for exactly one interval of the page's final merged list:
\* the first match is the only match and no fragment is dropped.
C28_ExactlyOneColumn ==
  (mode = "enhanced" /\ pc \in {"assemble", "assembled"}) =>
    \A k \in 1..Len(text_elements) :
      /\ text_elements[k].x0 <= text_elements[k].x1
      /\ Cardinality(FittingSlots(merged_columns, text_elements[k])) = 1
      /\ SlotOf(merged_columns, text_elements[k]) = FirstFit(merged_columns, text_elements[k])

\* three fragments have been resolved into two columns, one of which was
\* widened by the merge, and each fragment fits its column only
C28_Witness ==
  /\ mode = "enhanced" /\ pc = "assemble"
  /\ Len(text_elements) = 3
  /\ merged_columns = << [xmin |-> 0, xmax |-> 40], [xmin |-> 75, xmax |-> 90] >>

(* ----------------------- C24: compaction ------------------------------- *)
\* the slots that hold a fragment of the row
UsedSlots(row, cols) == {SlotOf(cols, row[k]) : k \in 1..Len(row)} \ {0}

\* the n-th smallest member of the set of numbers S
NthOf(S, n) == CHOOSE x \in S : Cardinality({y \in S : y <= x}) = n

\* C24: in column-exact mode the cell list of an output row is the row's
\* non-empty slots in ascending column order, the empty slots removed: it has
\* at least 1 cell, at most as many as there are resolved columns and at
\* most as many as the row has fragments; a cell's place is its rank among
\* the filled slots, not its column index.
C24_Compaction ==
  (mode = "enhanced" /\ pc = "assembled") =>
    /\ Len(page_tables) = Len(rows)
    /\ \A i \in 1..Len(page_tables) :
         LET cells == page_tables[i]
             used == UsedSlots(rows[i], merged_columns)
         IN /\ Len(cells) >= 1
            /\ Len(cells) <= Len(merged_columns)
            /\ Len(cells) <= Len(rows[i])
            /\ Len(cells) = Cardinality(used)
            /\ \A k \in 1..Len(cells) :
                 cells[k] = Join(<<" ">>, SlotTexts(rows[i], merged_columns, NthOf(used, k)))

\* of two resolved columns the second row fills only the second: its text
\* is the first cell of the row
C24_Witness ==
  /\ mode = "enhanced" /\ pc = "assembled"
  /\ Len(merged_columns) = 2
  /\ Len(rows) = 2 /\ Len(page_tables) = 2
  /\ Len(page_tables[1]) = 2
  /\ UsedSlots(rows[2], merged_columns) = {2}
  /\ Len(page_tables[2]) = 1

(* -------------- the page taken whole and the page in steps ------------- *)
\* the loops taken whole give what the steps give
PageAgrees ==
  /\ pc \in {"xsort", "discover"} => rows = PageRows(mode, doc[page])
  /\ (mode = "enhanced" /\ pc \in {"assemble", "assembled"}) =>
       merged_columns = PageColumns(doc[page])
  /\ pc = "assembled" => page_tables = PageTables(mode, doc[page])

(* ----------------------- C25: page independence ------------------------ *)
\* the rows of the pages 1..n of the document d in mode m, page after page
RECURSIVE RowsOfPages(_, _, _)
RowsOfPages(m, d, n) ==
  IF n = 0 THEN <<>> ELSE RowsOfPages(m, d, n - 1) \o PageTables(m, d[n])

\* C25: the rows of a page, and in column-exact mode its column intervals,
\* depend on the fragments of that page only: they are what the page gives
\* when it is taken alone, whatever the other pages hold, and the intervals
\* found on one page are never used for another.
C25_PageIndependence ==
  /\ PageAgrees
  /\ (mode = "enhanced" /\ pc = "discover") =>
       column_boundaries = DiscoverAll(<<>>, SubSeq(Walk(rows), 1, idx - 1))
  /\ pc = "page" => all_tables_data = RowsOfPages(mode, doc, page - 1)
  /\ pc = "done" => all_tables_data = RowsOfPages(mode, doc, Len(doc))

\* the second page, of one column, has been assembled in column-exact mode
\* after a first page of two columns
C25_Witness ==
  /\ mode = "enhanced" /\ pc = "assembled" /\ page = 2
  /\ Len(PageColumns(doc[1])) = 2
  /\ Len(merged_columns) = 1
  /\ Len(all_tables_data) >= 1 /\ Len(page_tables) >= 1

(* ------------------ C26: rectangles and lines -------------------------- *)
\* the text containers of a page, in order
TextOnly(pg) == SelectSeq(pg, LAMBDA e : e.kind = "text")

\* the page with one rectangle more, after its k-th element
WithRect(pg, k) == SubSeq(pg, 1, k) \o <<RectElement>> \o SubSeq(pg, k + 1, Len(pg))

\* C26: rectangle and line elements do not influence the result: pages with
\* the same text containers (order, text, boxes) and other rectangles give
\* the same rows and cells in both modes.
C26_ShapesIgnored ==
  /\ pc = "assembled" =>
       /\ page_tables = PageTables(mode, TextOnly(doc[page]))
       /\ \A k \in 0..Len(doc[page]) : page_tables = PageTables(mode, WithRect(doc[page], k))
  /\ pc = "done" =>
       result = Join(<<"\n">>, ResultStrings(PageTables(mode, TextOnly(doc[1]))))

\* the call has returned two rows for a page that holds a rectangle between
\* its two text containers
C26_Witness ==
  /\ pc = "done"
  /\ Len(doc[1]) = 3 /\ doc[1][2].kind = "rect"
  /\ Len(all_tables_data) = 2
  /\ TextOnly(doc[1]) # doc[1]

(* ------------- C27: basic rows refine column-exact rows ---------------- *)
\* C27: for every set of fragments the rows of the basic mode (pinned to the
\* first member, threshold 5) refine the rows of the column-exact mode
\* (neighbour to neighbour, threshold 8): two fragments in one basic row are
\* in one column-exact row, and there are at least as many basic rows.
C27_BasicRefinesEnhanced ==
  pc \in {"xsort", "discover"} =>
    LET b == ClusterBasic(text_elements)
        e == ClusterEnhanced(text_elements)
    IN /\ rows = IF mode = "basic" THEN b ELSE e
       /\ \A i \in 1..Len(b) : \E j \in 1..Len(e) : Ids(b[i]) \subseteq Ids(e[j])
       /\ Len(b) >= Len(e)

\* four fragments have been grouped that are two basic rows of two and one
\* column-exact row of four
C27_Witness ==
  /\ pc \in {"xsort", "discover"}
  /\ Len(text_elements) = 4
  /\ Len(ClusterBasic(text_elements)) = 2
  /\ Len(ClusterBasic(text_elements)[1]) = 2
  /\ Len(ClusterEnhanced(text_elements)) = 1

(* ---------------- C29: conservation through assembly ------------------- *)
\* the number of cells of the table t
RECURSIVE CellCount(_)
CellCount(t) == IF t = <<>> THEN 0 ELSE Len(Head(t)) + CellCount(Tail(t))

\* C29: only fragments with non-empty trimmed text are collected, so in
\* basic mode a page emits as many cells as it has collected fragments, and
\* in both modes as many rows as the clustering produced: no clustered row
\* is left out as empty.
C29_Conservation ==
  pc = "assembled" =>
    /\ \A k \in 1..Len(text_elements) : Strip(text_elements[k].text) # <<>>
    /\ Len(page_tables) = Len(rows)
    /\ Len(page_tables) = Len(PageRows(mode, doc[page]))
    /\ mode = "basic" => CellCount(page_tables) = Len(Collect(doc[page]))

\* a page of a blank text and two others, one with a tab inside, has been
\* assembled in basic mode: two fragments collected, two cells
C29_Witness ==
  /\ mode = "basic" /\ pc = "assembled"
  /\ Len(doc[1]) = 3
  /\ \E i \in 1..3 : doc[1][i].kind = "text" /\ Strip(doc[1][i].text) = <<>>
  /\ \E i \in 1..3 : doc[1][i].text = <<"c", "\t", "d">>
  /\ Len(text_elements) = 2
  /\ CellCount(page_tables) = 2

\* the same in column-exact mode: two rows clustered, two rows emitted
C29_WitnessEnhanced ==
  /\ mode = "enhanced" /\ pc = "assembled"
  /\ Len(rows) = 2 /\ Len(page_tables) = 2

(* --------------- C30: the two basic implementations -------------------- *)
\* C30: the two basic implementations agree: for every document the row
\* strings LoadingService.extract_pdf_tables returns, joined with newline,
\* are the string the script's extract_pdf_tables returns (same rows, same
\* cells, same order), and when extract_pages raises at a page both calls end
\* with that exception, after the same pages.
C30_ServiceAgreesWithScript ==
  /\ (mode = "basic" /\ pc = "assembled") => ServicePageTables(doc[page]) = page_tables
  /\ (mode = "basic" /\ pc = "done") =>
       /\ ServiceRun(doc, Len(doc)) = [raised |-> <<>>, all_tables_data |-> all_tables_data]
       /\ ServiceExtract(doc) = [raised |-> <<>>, returned |-> <<result_strings>>]
       /\ Join(<<"\n">>, ServiceExtract(doc).returned[1]) = result
  /\ (mode = "basic" /\ pc = "raised") =>
       /\ ServiceRun(doc, Len(doc)) = [raised |-> raised, all_tables_data |-> all_tables_data]
       /\ ServiceExtract(doc) = [raised |-> raised, returned |-> <<>>]

\* the script has returned two lines for a page with a blank text, a text
\* with a tab inside and a text with a leading space
C30_Witness ==
  /\ mode = "basic" /\ pc = "done"
  /\ Len(ServiceExtract(doc).returned[1]) = 2
  /\ \E i \in 1..Len(doc[1]) : doc[1][i].text = <<"c", "\t", "d">>
  /\ \E i \in 1..Len(doc[1]) : doc[1][i].text = <<" ", "b">>
  /\ result # <<>>

\* the script has raised at the second page of a document whose first page
\* gave a row, and the service raises the same exception
C30_WitnessRaised ==
  /\ mode = "basic" /\ pc = "raised"
  /\ page = 2 /\ all_tables_data # <<>>
  /\ ServiceExtract(doc).raised = <<FaultElement.text>>

====
